---------------------------- MODULE Spec2Model ----------------------------
(***************************************************************************)
(* Model of the crypto hedge fund manager: the TradingEngine               *)
(* (src/src/services/tradingEngine.js) and the HedgeFundManager that       *)
(* drives it (src/index.js).                                               *)
(*                                                                         *)
(* Conventions                                                             *)
(*  - a currency identifier is the sequence of the parts that              *)
(*    String.split(':') yields; <<>> stands for a missing identifier;      *)
(*  - an optional number that is absent (JS undefined) is Undefined;       *)
(*  - money is in whole USD, prices in whole USD; the fractions of the     *)
(*    risk table are kept in percent;                                      *)
(*  - a value a JS expression cannot produce because it throws is          *)
(*    reported by a ...Throws predicate next to the operator.              *)
(***************************************************************************)
EXTENDS Integers, Sequences, FiniteSets, TLC

(***************************************************************************)
(* Bounds of the model                                                     *)
(***************************************************************************)
\* longest batch handed to analyzeMultipleWithAI by the resolver harness
MaxBatch == 3
\* longest list of entries in the collaborator's answer
MaxEntries == 2
\* most currencies the market data provider returns in a run
MaxCurrencies == 2
\* most SIGINT deliveries in a run
MaxSigint == 2
\* most samples of the record handed to fallbackDecision on its own
MaxSamples == 2

\* the longest identifier text that is parsed
MaxIdLen == 5
\* longest ranked list handed to selectCurrenciesForTrading on its own
MaxRanked == 12
\* longest batch of decisions handed to the execute loop on its own
MaxDecisions == 4

(***************************************************************************)
(* Values                                                                  *)
(***************************************************************************)
\* JS undefined for an optional numeric field
Undefined == -1

\* Boolean(x) of an optional number: undefined and 0 are falsy
Truthy(x) == x # Undefined /\ x # 0

\* currency identifiers, as their ':'-separated parts
NoId == <<>>

IdSolX == <<"bid", "solana", "X">>

IdEthX == <<"eth", "X">>

IdY == <<"Y">>

CurrencyIds == {IdSolX, IdEthX, IdY}

(***************************************************************************)
(* Interval samples returned by BitqueryClient.getTradeMetrics.  hasPrice, *)
(* hasAverage and hasOhlc say whether the nested object is there.          *)
(***************************************************************************)
Sample(hp, ha, ho, est, wsm, op, cl) == [hasPrice |-> hp, hasAverage |-> ha, hasOhlc |-> ho, Estimate |-> est, WeightedSimpleMoving |-> wsm, Open |-> op, Close |-> cl]

\* a sample without Price
SampleNoPrice == Sample(FALSE, FALSE, FALSE, Undefined, Undefined, Undefined, Undefined)

\* Price with Average but without Ohlc
SampleNoOhlc == Sample(TRUE, TRUE, FALSE, 100, 100, Undefined, Undefined)

\* Price with Ohlc but without Average: a rising candle
SampleNoAverage == Sample(TRUE, FALSE, TRUE, Undefined, Undefined, 50, 100)

\* complete samples: rising above the average, falling below it, mixed
SampleBull == Sample(TRUE, TRUE, TRUE, 100, 50, 50, 100)

SampleBear == Sample(TRUE, TRUE, TRUE, 50, 100, 100, 50)

SampleMixed == Sample(TRUE, TRUE, TRUE, 100, 100, 50, 100)

\* a complete sample whose estimate is 115
SampleRise == Sample(TRUE, TRUE, TRUE, 115, 100, 100, 115)

\* Estimate 0 (falsy): the price falls back to Close
SampleZeroEstimate == Sample(TRUE, TRUE, TRUE, 0, 0, 50, 100)

Samples == {SampleNoPrice, SampleNoOhlc, SampleNoAverage, SampleBull, SampleBear, SampleMixed, SampleZeroEstimate}

\* the oldest sample instead of the most recent one
Oldest(tradeMetrics) == tradeMetrics[1]

\* tradeMetrics[tradeMetrics.length - 1]; only asked of a non-empty list
Latest(tradeMetrics) == tradeMetrics[Len(tradeMetrics)]

(***************************************************************************)
(* Decisions                                                               *)
(***************************************************************************)
Decision(id, d, t, c, r, p) == [currencyId |-> id, decision |-> d, positionType |-> t, confidence |-> c, reasoning |-> r, entryPrice |-> p]

\* confidence in tenths: 0.5, 0.6, 0.7
ConfNoData == 5

ConfFallback == 6

ConfGemini == 7

(***************************************************************************)
(* fallbackDecision                                                        *)
(***************************************************************************)
\* Price.Ohlc is read without a guard (ohlc.Close, line 289): a latest
\* sample that has Price but no Ohlc raises a TypeError
fallbackDecisionThrows(currencyId, volatilityData, tradeMetrics) ==
    /\ Len(tradeMetrics) > 0
    /\ Latest(tradeMetrics).hasPrice
    /\ ~Latest(tradeMetrics).hasOhlc

\* a heuristic whose confidence follows the volatility data
fallbackDecisionByVolatility(currencyId, volatilityData, tradeMetrics) ==
    Decision(currencyId, "hold", "long", IF volatilityData = "object" THEN ConfNoData ELSE ConfFallback, "No trade metrics available", 0)

\* a fallback that answers a bearish candle below the average with close
fallbackDecisionCloses(currencyId, volatilityData, tradeMetrics) ==
    IF Len(tradeMetrics) = 0 \/ ~Latest(tradeMetrics).hasPrice
    THEN Decision(currencyId, "hold", "long", ConfNoData, "No trade metrics available", 0)
    ELSE IF Latest(tradeMetrics).Close > Latest(tradeMetrics).Open
    THEN Decision(currencyId, "open", "long", ConfFallback, "Fallback: Price above SMA with bullish candle", Latest(tradeMetrics).Close)
    ELSE Decision(currencyId, "close", "short", ConfFallback, "Fallback: Price below SMA with bearish candle", Latest(tradeMetrics).Close)

fallbackDecision(currencyId, volatilityData, tradeMetrics) ==
    IF Len(tradeMetrics) = 0
    THEN Decision(currencyId, "hold", "long", ConfNoData, "No trade metrics available", 0)
    ELSE IF ~Latest(tradeMetrics).hasPrice
    THEN Decision(currencyId, "hold", "long", ConfNoData, "Insufficient market data", 0)
    ELSE
      LET Price == Latest(tradeMetrics)
          estimate == IF Price.hasAverage /\ Truthy(Price.Estimate) THEN Price.Estimate ELSE Price.Close
          sma == IF Price.hasAverage /\ Truthy(Price.WeightedSimpleMoving) THEN Price.WeightedSimpleMoving ELSE estimate
          isPriceAboveSMA == Price.Close > sma
          isBullish == Price.Close > Price.Open
          action == IF isPriceAboveSMA /\ isBullish THEN "open"
                    ELSE IF ~isPriceAboveSMA /\ ~isBullish THEN "open"
                    ELSE "hold"
          type == IF isPriceAboveSMA /\ isBullish THEN "long"
                  ELSE IF ~isPriceAboveSMA /\ ~isBullish THEN "short"
                  ELSE "long"
          reasoning == IF isPriceAboveSMA
                       THEN (IF isBullish THEN "Fallback: Price above SMA with bullish candle" ELSE "Fallback: Price above SMA with bearish candle")
                       ELSE (IF isBullish THEN "Fallback: Price below SMA with bullish candle" ELSE "Fallback: Price below SMA with bearish candle")
      IN Decision(currencyId, action, type, ConfFallback, reasoning, estimate)

(***************************************************************************)
(* Metric records: the elements of currenciesWithMetrics                   *)
(***************************************************************************)
MetricRecord(id, vol, tm) == [currencyId |-> id, volatilityData |-> vol, tradeMetrics |-> tm]

\* the value of a call's outcome: a decision list, or an exception
Returned(ds) == [status |-> "returned", decisions |-> ds]

Threw == [status |-> "threw", decisions |-> <<>>]

\* currenciesWithMetrics.map(r => this.fallbackDecision(...)): the first
\* record fallbackDecision throws on aborts the map
MapFallback(currenciesWithMetrics) ==
    IF \E i \in 1..Len(currenciesWithMetrics) : fallbackDecisionThrows(currenciesWithMetrics[i].currencyId, currenciesWithMetrics[i].volatilityData, currenciesWithMetrics[i].tradeMetrics)
    THEN Threw
    ELSE Returned([i \in 1..Len(currenciesWithMetrics) |-> fallbackDecision(currenciesWithMetrics[i].currencyId, currenciesWithMetrics[i].volatilityData, currenciesWithMetrics[i].tradeMetrics)])

(***************************************************************************)
(* The reasoning collaborator's answer.  kind says how far the call got,   *)
(* items is the parsed JSON array when the text holds one.                 *)
(***************************************************************************)
GeminiKinds == {"fetchThrows", "httpError", "jsonThrows", "errorBody", "invalidStructure", "noText", "noArray", "badJson", "list"}

Gemini(k, items) == [kind |-> k, items |-> items]

\* an element of the array: JSON null, a primitive, or an object whose
\* fields are strings, "undefined" when missing, "#number" when a number
Item(k, id, a, t, r) == [kind |-> k, currencyId |-> id, action |-> a, positionType |-> t, reasoning |-> r]

ItemNull == Item("null", NoId, "undefined", "undefined", "undefined")

ItemPrimitive == Item("number", NoId, "undefined", "undefined", "undefined")

\* String.prototype.toUpperCase / toLowerCase on the texts of the model
toUpperCase(s) ==
    CASE s = "open short" -> "OPEN SHORT"
      [] s = "Close" -> "CLOSE"
      [] s = "close long" -> "CLOSE LONG"
      [] OTHER -> s

toLowerCase(s) ==
    CASE s = "SHORT" -> "short"
      [] s = "Long" -> "long"
      [] s = "Neutral" -> "neutral"
      [] OTHER -> s

\* String.prototype.includes(word), case-sensitive, for the words the
\* parser looks for
includes(s, word) ==
    word \in (CASE s = "OPEN LONG" -> {"OPEN", "LONG"}
                [] s = "OPEN SHORT" -> {"OPEN", "SHORT"}
                [] s = "OPEN" -> {"OPEN"}
                [] s = "CLOSE" -> {"CLOSE"}
                [] s = "CLOSE LONG" -> {"CLOSE", "LONG"}
                [] OTHER -> {})

\* decisionMap: the last item carrying a truthy currencyId wins
decisionMapHas(items, currencyId) == \E j \in 1..Len(items) : items[j].currencyId # NoId /\ items[j].currencyId = currencyId

decisionMapGet(items, currencyId) ==
    items[CHOOSE j \in 1..Len(items) : /\ items[j].currencyId = currencyId
                                       /\ \A k \in (j + 1)..Len(items) : items[k].currencyId # currencyId]

\* item.action?.toUpperCase() and item.positionType.toLowerCase() raise a
\* TypeError on a value that is present but no string
itemThrows(item) == item.action = "#number" \/ item.positionType = "#number"

\* lines 205-235: the decision derived from a response entry
itemDecision(item, currencyId, tradeMetrics) ==
    LET action == IF item.action = "undefined" \/ item.action = "" THEN "HOLD" ELSE toUpperCase(item.action)
        decision == IF includes(action, "OPEN") THEN "open"
                    ELSE IF includes(action, "CLOSE") THEN "close"
                    ELSE "hold"
        type == IF item.positionType # "undefined" /\ item.positionType # "" THEN toLowerCase(item.positionType)
                ELSE IF includes(action, "SHORT") THEN "short"
                ELSE "long"
        hasLatest == Len(tradeMetrics) > 0
        est == IF hasLatest /\ Latest(tradeMetrics).hasPrice /\ Latest(tradeMetrics).hasAverage THEN Latest(tradeMetrics).Estimate ELSE Undefined
        close == IF hasLatest /\ Latest(tradeMetrics).hasPrice /\ Latest(tradeMetrics).hasOhlc THEN Latest(tradeMetrics).Close ELSE Undefined
        entryPrice == IF Truthy(est) THEN est ELSE IF Truthy(close) THEN close ELSE 0
        reasoning == IF item.reasoning = "undefined" \/ item.reasoning = "" THEN "Market analysis completed" ELSE item.reasoning
    IN Decision(currencyId, decision, type, ConfGemini, reasoning, entryPrice)

\* the try block of parseMultiCurrencyResponse raises
parseTryThrows(gptText, currenciesWithMetrics) ==
    \/ gptText.kind \in {"noText", "noArray", "badJson"}
    \/ \E j \in 1..Len(gptText.items) : gptText.items[j].kind = "null"
    \/ \E i \in 1..Len(currenciesWithMetrics) :
         LET r == currenciesWithMetrics[i]
         IN IF decisionMapHas(gptText.items, r.currencyId)
            THEN itemThrows(decisionMapGet(gptText.items, r.currencyId))
            ELSE fallbackDecisionThrows(r.currencyId, r.volatilityData, r.tradeMetrics)

parseMultiCurrencyResponse(gptText, currenciesWithMetrics) ==
    IF parseTryThrows(gptText, currenciesWithMetrics)
    THEN MapFallback(currenciesWithMetrics)
    ELSE Returned([i \in 1..Len(currenciesWithMetrics) |->
           LET r == currenciesWithMetrics[i]
           IN IF decisionMapHas(gptText.items, r.currencyId)
              THEN itemDecision(decisionMapGet(gptText.items, r.currencyId), r.currencyId, r.tradeMetrics)
              ELSE fallbackDecision(r.currencyId, r.volatilityData, r.tradeMetrics)])

\* buildMultiCurrencyPrompt reads volatilityData.volatility: a record whose
\* volatilityData is undefined raises a TypeError
buildMultiCurrencyPromptThrows(currenciesWithMetrics) ==
    \E i \in 1..Len(currenciesWithMetrics) : currenciesWithMetrics[i].volatilityData = "undefined"

\* whether the call reaches fetch(apiUrl, ...)
geminiInvoked(apiKey, currenciesWithMetrics) == apiKey /\ ~buildMultiCurrencyPromptThrows(currenciesWithMetrics)

\* the prompt, as the "Currency ID" lines it carries: one per record, in
\* the order of the batch
buildMultiCurrencyPrompt(currenciesWithMetrics) == [j \in 1..Len(currenciesWithMetrics) |-> currenciesWithMetrics[j].currencyId]

\* a resolver that asks the collaborator about each record on its own
geminiRequestsPerRecord(apiKey, currenciesWithMetrics) ==
    IF apiKey /\ ~buildMultiCurrencyPromptThrows(currenciesWithMetrics)
    THEN [j \in 1..Len(currenciesWithMetrics) |-> <<currenciesWithMetrics[j].currencyId>>]
    ELSE <<>>

\* the requests one call of analyzeMultipleWithAI sends to the
\* collaborator, each as the prompt it carries: the one fetch of line 65,
\* which is in no loop and is not repeated by any catch
geminiRequests(apiKey, currenciesWithMetrics) ==
    IF geminiInvoked(apiKey, currenciesWithMetrics)
    THEN <<buildMultiCurrencyPrompt(currenciesWithMetrics)>>
    ELSE <<>>

\* analyzeMultipleWithAI; the catch block maps fallbackDecision again, and
\* what that map raises leaves the function
analyzeMultipleWithAI(apiKey, response, currenciesWithMetrics) ==
    IF ~apiKey THEN MapFallback(currenciesWithMetrics)
    ELSE IF buildMultiCurrencyPromptThrows(currenciesWithMetrics) THEN MapFallback(currenciesWithMetrics)
    ELSE IF response.kind \in {"fetchThrows", "jsonThrows"} THEN MapFallback(currenciesWithMetrics)
    ELSE IF response.kind \in {"httpError", "errorBody", "invalidStructure"} THEN MapFallback(currenciesWithMetrics)
    ELSE LET decisions == parseMultiCurrencyResponse(response, currenciesWithMetrics)
         IN IF decisions.status = "threw" THEN MapFallback(currenciesWithMetrics) ELSE decisions

(***************************************************************************)
(* TradingEngine: risk table, identifiers, the position ledger             *)
(***************************************************************************)
\* this.capital, in USD
capital == 100000

\* a low table whose position size does not divide the 90% mark
getRiskParametersWide(profile) ==
    IF profile = "high"
    THEN [maxPositionSize |-> 30, volatilityThreshold |-> 5, stopLoss |-> 90, takeProfit |-> 115]
    ELSE [maxPositionSize |-> 40, volatilityThreshold |-> 2, stopLoss |-> 95, takeProfit |-> 105]

\* the names every object literal inherits from Object.prototype; the
\* value under such a name is a function or the prototype object, truthy
\* in either case
ObjectPrototypeNames == {"constructor", "toString", "toLocaleString", "valueOf", "hasOwnProperty", "isPrototypeOf", "propertyIsEnumerable", "__proto__", "__defineGetter__", "__defineSetter__", "__lookupGetter__", "__lookupSetter__"}

\* what profiles[name] is for an inherited name: not a table, none of the
\* four fields is there
InheritedMember(name) == [inherited |-> name, maxPositionSize |-> Undefined, volatilityThreshold |-> Undefined, stopLoss |-> Undefined, takeProfit |-> Undefined]

\* the risk table, fractions in percent: profiles[profile] || profiles.low
getRiskParameters(profile) ==
    IF profile = "high"
    THEN [maxPositionSize |-> 30, volatilityThreshold |-> 5, stopLoss |-> 90, takeProfit |-> 115]
    ELSE IF profile \in ObjectPrototypeNames
    THEN InheritedMember(profile)
    ELSE [maxPositionSize |-> 10, volatilityThreshold |-> 2, stopLoss |-> 95, takeProfit |-> 105]

RiskProfiles == {"low", "high"}

\* the address is kept as a sequence of parts too: one part when cut out
\* of the identifier, the identifier itself when the shape is unknown
parseCurrencyId(currencyId) ==
    IF Len(currencyId) = 3 THEN [network |-> currencyId[2], address |-> <<currencyId[3]>>]
    ELSE IF Len(currencyId) = 2 THEN [network |-> "ethereum", address |-> <<currencyId[2]>>]
    ELSE [network |-> "unknown", address |-> currencyId]

\* JS numbers that may be NaN or infinite: kind "finite" carries v
Finite(v) == [kind |-> "finite", v |-> v]

NaN == [kind |-> "NaN", v |-> 0]

Infinity(sign) == [kind |-> IF sign > 0 THEN "Infinity" ELSE "-Infinity", v |-> 0]

\* a + b
FloatAdd(a, b) ==
    IF a.kind = "NaN" \/ b.kind = "NaN" THEN NaN
    ELSE IF a.kind = "finite" /\ b.kind = "finite" THEN Finite(a.v + b.v)
    ELSE IF a.kind = "finite" THEN b
    ELSE IF b.kind = "finite" THEN a
    ELSE IF a.kind = b.kind THEN a
    ELSE NaN

\* (num / den) * size; the prices of the model divide without remainder
FloatRatioTimes(num, den, size) ==
    IF den = 0
    THEN (IF num = 0 THEN NaN ELSE Infinity(num))
    ELSE Finite((num * size) \div den)

\* this.positions is a Map: entries in insertion order, keyed by
\* tokenAddress
mapHas(ps, address) == \E j \in 1..Len(ps) : ps[j].tokenAddress = address

mapGet(ps, address) == ps[CHOOSE j \in 1..Len(ps) : ps[j].tokenAddress = address]

\* a map that keeps the old entry next to the new one
mapSetAppend(ps, address, position) == Append(ps, position)

\* Map.set: an existing key keeps its place and takes the new value
mapSet(ps, address, position) ==
    IF mapHas(ps, address)
    THEN [j \in 1..Len(ps) |-> IF ps[j].tokenAddress = address THEN position ELSE ps[j]]
    ELSE Append(ps, position)

\* a delete that empties the map
mapClear(ps, address) == <<>>

\* Map.delete
mapDelete(ps, address) == SelectSeq(ps, LAMBDA p : p.tokenAddress # address)

\* the sum of the sizes of the stored positions
RECURSIVE SumSizes(_)
SumSizes(ps) == IF Len(ps) = 0 THEN 0 ELSE Head(ps).size + SumSizes(Tail(ps))

\* takeProfitMultiplier - 1 in double arithmetic, against the decimal
\* fraction it stands for: 1.15 - 1 is 0.1499999999999999, below 0.15, and
\* 1.05 - 1 is 0.050000000000000044, above 0.05
subtractOneExcess(takeProfitMultiplier) ==
    CASE takeProfitMultiplier = 115 -> 0 - 1
      [] takeProfitMultiplier = 105 -> 1
      [] OTHER -> 0

\* positionSize * (takeProfitMultiplier - 1): usd is the whole amount the
\* product is next to, excess says on which side of it the double lies
\* (30000 * (1.15 - 1) is 4499.999999999997, 10000 * (1.05 - 1) is
\* 500.00000000000045)
calculateExpectedProfit(positionSize, entryPrice, takeProfitMultiplier) ==
    [usd |-> (positionSize * (takeProfitMultiplier - 100)) \div 100, excess |-> subtractOneExcess(takeProfitMultiplier)]

\* a guard that lets an open through at exactly 90%
guardRejectsAbove(alloc) == alloc * 10 > capital * 9

\* the capital guard of openPosition: allocatedCapital >= capital * 0.9
guardRejects(alloc) == alloc * 10 >= capital * 9

\* openPosition; now is Date.now().  opened says whether a position (and
\* not null) is returned
openPosition(ps, alloc, riskParams, aiDecision, now) ==
    IF guardRejects(alloc)
    THEN [opened |-> FALSE, positions |-> ps, allocatedCapital |-> alloc, expectedProfit |-> [usd |-> 0, excess |-> 0]]
    ELSE
      LET positionSize == (capital * riskParams.maxPositionSize) \div 100
          parsed == parseCurrencyId(aiDecision.currencyId)
          position == [id |-> now,
                       currencyId |-> aiDecision.currencyId,
                       tokenAddress |-> parsed.address,
                       network |-> parsed.network,
                       type |-> aiDecision.positionType,
                       entryPrice |-> aiDecision.entryPrice,
                       size |-> positionSize,
                       timestamp |-> now,
                       stopLoss |-> riskParams.stopLoss,
                       takeProfit |-> riskParams.takeProfit,
                       confidence |-> aiDecision.confidence,
                       reasoning |-> aiDecision.reasoning,
                       expectedProfit |-> calculateExpectedProfit(positionSize, aiDecision.entryPrice, riskParams.takeProfit)]
      IN [opened |-> TRUE,
          positions |-> mapSet(ps, parsed.address, position),
          allocatedCapital |-> alloc + positionSize,
          expectedProfit |-> position.expectedProfit]

\* a P&L that takes every position for a long one
pnlOfLong(position, currentPrice) == FloatRatioTimes(currentPrice - position.entryPrice, position.entryPrice, position.size)

\* the P&L of closePosition
pnlOf(position, currentPrice) ==
    IF position.type = "long"
    THEN FloatRatioTimes(currentPrice - position.entryPrice, position.entryPrice, position.size)
    ELSE FloatRatioTimes(position.entryPrice - currentPrice, position.entryPrice, position.size)

\* closePosition: closed is the returned {...position, currentPrice, pnl}
closePosition(ps, alloc, position, currentPrice) ==
    [closed |-> [position |-> position, currentPrice |-> currentPrice, pnl |-> pnlOf(position, currentPrice)],
     positions |-> mapDelete(ps, position.tokenAddress),
     allocatedCapital |-> alloc - position.size]

\* executeDecision starts with parseCurrencyId(currencyId), which calls
\* currencyId.split: a decision whose currencyId is not there raises a
\* TypeError
executeDecisionThrows(aiDecision) == aiDecision.currencyId = NoId

\* an executeDecision that answers an open for a held address by closing
executeDecisionToggles(ps, alloc, riskParams, aiDecision, now) ==
    LET address == parseCurrencyId(aiDecision.currencyId).address
    IN IF aiDecision.decision # "hold" /\ mapHas(ps, address)
       THEN LET r == closePosition(ps, alloc, mapGet(ps, address), aiDecision.entryPrice)
            IN [message |-> "Closing", positions |-> r.positions, allocatedCapital |-> r.allocatedCapital, closed |-> <<r.closed>>]
       ELSE IF aiDecision.decision = "open"
       THEN LET r == openPosition(ps, alloc, riskParams, aiDecision, now)
            IN [message |-> IF r.opened THEN "Opening" ELSE "", positions |-> r.positions, allocatedCapital |-> r.allocatedCapital, closed |-> <<>>]
       ELSE [message |-> IF aiDecision.decision = "hold" THEN "Holding" ELSE "", positions |-> ps, allocatedCapital |-> alloc, closed |-> <<>>]

\* executeDecision: message is "" when nothing was opened or closed;
\* closed holds the closedPosition that closePosition returned, if any
executeDecision(ps, alloc, riskParams, aiDecision, now) ==
    IF aiDecision.decision = "open"
    THEN LET r == openPosition(ps, alloc, riskParams, aiDecision, now)
         IN [message |-> IF r.opened THEN "Opening" ELSE "", positions |-> r.positions, allocatedCapital |-> r.allocatedCapital, closed |-> <<>>]
    ELSE IF aiDecision.decision = "close"
    THEN LET address == parseCurrencyId(aiDecision.currencyId).address
         IN IF mapHas(ps, address)
            THEN LET r == closePosition(ps, alloc, mapGet(ps, address), aiDecision.entryPrice)
                 IN [message |-> "Closing", positions |-> r.positions, allocatedCapital |-> r.allocatedCapital, closed |-> <<r.closed>>]
            ELSE [message |-> "", positions |-> ps, allocatedCapital |-> alloc, closed |-> <<>>]
    ELSE [message |-> "Holding", positions |-> ps, allocatedCapital |-> alloc, closed |-> <<>>]

\* what asking getTradeMetrics for a position's price comes to: no client
\* was given, the call threw, or it returned a list of samples
Lookup(k, metrics) == [kind |-> k, metrics |-> metrics]

\* a price of 0 for every position
lookupPriceZero(position, lookup) == 0

\* the price closeAllPositions closes a position at
lookupPrice(position, lookup) ==
    IF lookup.kind # "returned" \/ Len(lookup.metrics) = 0 THEN position.entryPrice
    ELSE LET latestMetric == Latest(lookup.metrics)
             est == IF latestMetric.hasPrice /\ latestMetric.hasAverage THEN latestMetric.Estimate ELSE Undefined
             close == IF latestMetric.hasPrice /\ latestMetric.hasOhlc THEN latestMetric.Close ELSE Undefined
         IN IF Truthy(est) THEN est ELSE IF Truthy(close) THEN close ELSE position.entryPrice

\* a loop body that gives up on a position whose price lookup threw
closeIterationSkipsThrown(st, position, lookup) ==
    IF lookup.kind = "threw" THEN st
    ELSE LET r == closePosition(st.positions, st.allocatedCapital, position, lookupPrice(position, lookup))
         IN [positions |-> r.positions,
             allocatedCapital |-> r.allocatedCapital,
             closedPositions |-> Append(st.closedPositions, r.closed),
             totalPnL |-> FloatAdd(st.totalPnL, r.closed.pnl)]

\* one iteration of the loop of closeAllPositions, on the state st of the
\* call and the ledger
closeIteration(st, position, lookup) ==
    LET r == closePosition(st.positions, st.allocatedCapital, position, lookupPrice(position, lookup))
    IN [positions |-> r.positions,
        allocatedCapital |-> r.allocatedCapital,
        closedPositions |-> Append(st.closedPositions, r.closed),
        totalPnL |-> FloatAdd(st.totalPnL, r.closed.pnl)]

\* closeAllPositions run without interruption: snapshot is
\* getOpenPositions(), lookups[j] what the lookup for snapshot[j] comes to
RECURSIVE closeLoop(_, _, _, _)
closeLoop(st, snapshot, lookups, j) ==
    IF j > Len(snapshot) THEN st
    ELSE closeLoop(closeIteration(st, snapshot[j], lookups[j]), snapshot, lookups, j + 1)

closeAllPositions(ps, alloc, lookups) ==
    closeLoop([positions |-> ps, allocatedCapital |-> alloc, closedPositions |-> <<>>, totalPnL |-> Finite(0)], ps, lookups, 1)

(***************************************************************************)
(* The program: HedgeFundManager (index.js) driving one TradingEngine.     *)
(* A step is one turn of the event loop: the code between two awaits that  *)
(* wait for a timer or for the network.                                    *)
(***************************************************************************)
VARIABLES
    riskProfile,            \* the profile the front end supplies
    geminiApiKey,           \* whether GEMINI_API_KEY is set
    positions,              \* TradingEngine.positions
    allocatedCapital,       \* TradingEngine.allocatedCapital
    mainPc,                 \* where start / mainLoop / startAITrading waits
    currencies,             \* the selected currencies
    currenciesWithMetrics,  \* the batch of metric records
    gemini,                 \* the collaborator's answer to the batched call
    analysis,               \* what analyzeMultipleWithAI gave: status, decisions
    i,                      \* index of the loops of startAITrading
    clock,                  \* Date.now()
    message,                \* the message of the last executed decision
    handlers,               \* the running SIGINT handlers, one per delivery
    process,                \* "running", "exit0" or "exit1"
    closeResult             \* the last completed closeAllPositions call

vars == <<riskProfile, geminiApiKey, positions, allocatedCapital, mainPc, currencies, currenciesWithMetrics, gemini, analysis, i, clock, message, handlers, process, closeResult>>

ledgerVars == <<positions, allocatedCapital>>

cycleVars == <<currencies, currenciesWithMetrics, gemini, analysis, i>>

NoGemini == Gemini("none", <<>>)

NoAnalysis == [status |-> "none", decisions |-> <<>>]

NoCloseResult == [done |-> FALSE, snapshot |-> <<>>, lookups |-> <<>>, samples |-> <<>>, closedPositions |-> <<>>, totalPnL |-> Finite(0)]

\* sequences over S of length at most n
SeqUpTo(S, n) == UNION {[1..m -> S] : m \in 0..n}

\* what the provider returns for the ranked list
Currency(id) == [Id |-> id, volatility |-> "number"]

ProviderLists == SeqUpTo({Currency(id) : id \in CurrencyIds}, MaxCurrencies)

\* what getTradeMetrics returns during the cycle
CycleMetrics == {<<>>, <<SampleBull>>, <<SampleNoOhlc>>}

\* what getTradeMetrics returns to closeAllPositions
LookupMetrics == {<<>>, <<SampleBear>>}

\* the collaborator's answers during the cycle
CycleItems == {Item("object", id, a, "undefined", "undefined") : id \in CurrencyIds, a \in {"OPEN LONG", "Close"}}

CycleAnswers == {Gemini("httpError", <<>>)} \cup {Gemini("list", items) : items \in SeqUpTo(CycleItems, MaxEntries)}

\* slice(0, 10)
SelectLimit == 10

Reverse(seq) == [j \in 1..Len(seq) |-> seq[Len(seq) + 1 - j]]

\* a selection that takes the head of the list under either profile
selectCurrenciesFromHead(profile, cs) ==
    SubSeq(cs, 1, IF Len(cs) < SelectLimit THEN Len(cs) ELSE SelectLimit)

selectCurrenciesForTrading(profile, cs) ==
    LET selected == IF profile = "low" THEN Reverse(cs) ELSE cs
    IN SubSeq(selected, 1, IF Len(selected) < SelectLimit THEN Len(selected) ELSE SelectLimit)

Init ==
    /\ riskProfile \in RiskProfiles
    /\ geminiApiKey \in BOOLEAN
    /\ positions = <<>>
    /\ allocatedCapital = 0
    /\ mainPc = "selectRiskProfile"
    /\ currencies = <<>>
    /\ currenciesWithMetrics = <<>>
    /\ gemini = NoGemini
    /\ analysis = NoAnalysis
    /\ i = 0
    /\ clock = 0
    /\ message = "none"
    /\ handlers = <<>>
    /\ process = "running"
    /\ closeResult = NoCloseResult

\* start(): the risk profile is answered, the services are built, and
\* mainLoop sleeps 1000 ms
SelectRiskProfile ==
    /\ process = "running"
    /\ mainPc = "selectRiskProfile"
    /\ mainPc' = "sleep"
    /\ UNCHANGED <<riskProfile, geminiApiKey, ledgerVars, cycleVars, clock, message, handlers, process, closeResult>>

\* mainLoop after the sleep: getCurrencyVolatilityData is called
MainLoopSleepDone ==
    /\ process = "running"
    /\ mainPc = "sleep"
    /\ mainPc' = "getCurrencies"
    /\ UNCHANGED <<riskProfile, geminiApiKey, ledgerVars, cycleVars, clock, message, handlers, process, closeResult>>

\* getCurrencyVolatilityData throws: the catch of mainLoop exits with 1
GetCurrenciesThrows ==
    /\ process = "running"
    /\ mainPc = "getCurrencies"
    /\ process' = "exit1"
    /\ UNCHANGED <<riskProfile, geminiApiKey, ledgerVars, mainPc, cycleVars, clock, message, handlers, closeResult>>

\* getCurrencyVolatilityData returns: the currencies are selected and
\* startAITrading asks for the first currency's metrics, or, with no
\* currency, goes on to the batched call
GetCurrenciesReturns ==
    /\ process = "running"
    /\ mainPc = "getCurrencies"
    /\ \E cs \in ProviderLists :
         /\ currencies' = selectCurrenciesForTrading(riskProfile, cs)
         /\ mainPc' = IF Len(cs) = 0 THEN "analyze" ELSE "fetchMetrics"
    /\ i' = 1
    /\ UNCHANGED <<riskProfile, geminiApiKey, ledgerVars, currenciesWithMetrics, gemini, analysis, clock, message, handlers, process, closeResult>>

\* getTradeMetrics returns for currency i: the record is pushed and the
\* loop sleeps 100 ms
FetchMetricsReturns ==
    /\ process = "running"
    /\ mainPc = "fetchMetrics"
    /\ \E tradeMetrics \in CycleMetrics :
         currenciesWithMetrics' = Append(currenciesWithMetrics, MetricRecord(currencies[i].Id, currencies[i].volatility, tradeMetrics))
    /\ mainPc' = "fetchSleep"
    /\ UNCHANGED <<riskProfile, geminiApiKey, ledgerVars, currencies, gemini, analysis, i, clock, message, handlers, process, closeResult>>

\* a failed fetch that leaves its currency out of the batch
FetchMetricsThrowsSkips ==
    /\ process = "running"
    /\ mainPc = "fetchMetrics"
    /\ i' = i + 1
    /\ mainPc' = IF i = Len(currencies) THEN "analyze" ELSE "fetchMetrics"
    /\ UNCHANGED <<riskProfile, geminiApiKey, ledgerVars, currencies, currenciesWithMetrics, gemini, analysis, clock, message, handlers, process, closeResult>>

\* getTradeMetrics throws for currency i: a record with no samples is
\* pushed (its volatilityData is the currency object) and the loop goes on
FetchMetricsThrows ==
    /\ process = "running"
    /\ mainPc = "fetchMetrics"
    /\ currenciesWithMetrics' = Append(currenciesWithMetrics, MetricRecord(currencies[i].Id, "object", <<>>))
    /\ i' = i + 1
    /\ mainPc' = IF i = Len(currencies) THEN "analyze" ELSE "fetchMetrics"
    /\ UNCHANGED <<riskProfile, geminiApiKey, ledgerVars, currencies, gemini, analysis, clock, message, handlers, process, closeResult>>

\* a loop that issues the batched call after its first fetch
FetchSleepDoneEarly ==
    /\ process = "running"
    /\ mainPc = "fetchSleep"
    /\ i' = i + 1
    /\ mainPc' = "analyze"
    /\ UNCHANGED <<riskProfile, geminiApiKey, ledgerVars, currencies, currenciesWithMetrics, gemini, analysis, clock, message, handlers, process, closeResult>>

\* the 100 ms sleep is over: the next currency, or the batched call
FetchSleepDone ==
    /\ process = "running"
    /\ mainPc = "fetchSleep"
    /\ i' = i + 1
    /\ mainPc' = IF i = Len(currencies) THEN "analyze" ELSE "fetchMetrics"
    /\ UNCHANGED <<riskProfile, geminiApiKey, ledgerVars, currencies, currenciesWithMetrics, gemini, analysis, clock, message, handlers, process, closeResult>>

\* analyzeMultipleWithAI settles.  What it throws reaches the catch of
\* mainLoop, which exits with 1; with no decision to execute the program
\* rests
AnalyzeSettles ==
    /\ process = "running"
    /\ mainPc = "analyze"
    /\ \E answer \in (IF geminiInvoked(geminiApiKey, currenciesWithMetrics) THEN CycleAnswers ELSE {NoGemini}) :
         /\ gemini' = answer
         /\ analysis' = analyzeMultipleWithAI(geminiApiKey, answer, currenciesWithMetrics)
    /\ i' = 1
    /\ process' = IF analysis'.status = "threw" THEN "exit1" ELSE "running"
    /\ mainPc' = IF analysis'.status = "threw" THEN "analyze"
                 ELSE IF Len(currenciesWithMetrics) = 0 THEN "resting"
                 ELSE "execute"
    /\ UNCHANGED <<riskProfile, geminiApiKey, ledgerVars, currencies, currenciesWithMetrics, clock, message, handlers, closeResult>>

\* decision i is executed and its message printed; the loop then sleeps
\* 200 ms, or, after the last decision, waits for the interrupt
ExecuteStep ==
    /\ process = "running"
    /\ mainPc = "execute"
    /\ LET r == executeDecision(positions, allocatedCapital, getRiskParameters(riskProfile), analysis.decisions[i], clock)
       IN /\ positions' = r.positions
          /\ allocatedCapital' = r.allocatedCapital
          /\ message' = r.message
    /\ clock' = clock + 1
    /\ i' = i + 1
    /\ mainPc' = IF i = Len(currenciesWithMetrics) THEN "resting" ELSE "execute"
    /\ UNCHANGED <<riskProfile, geminiApiKey, currencies, currenciesWithMetrics, gemini, analysis, handlers, process, closeResult>>

(***************************************************************************)
(* The SIGINT handler                                                      *)
(***************************************************************************)
\* lookups records what each lookup of the call came to, samples how many
\* samples it returned
Handler(snapshot) == [pc |-> "lookup", positions |-> snapshot, k |-> 1, lookups |-> <<>>, samples |-> <<>>, closedPositions |-> <<>>, totalPnL |-> Finite(0)]

\* SIGINT is delivered.  Before the engine exists, or with no open
\* position, the handler exits at once; otherwise closeAllPositions takes
\* the open positions and asks for the first one's price
Sigint ==
    /\ process = "running"
    /\ Len(handlers) < MaxSigint
    /\ IF mainPc = "selectRiskProfile" \/ Len(positions) = 0
       THEN /\ process' = "exit0"
            /\ handlers' = handlers
       ELSE /\ process' = process
            /\ handlers' = Append(handlers, Handler(positions))
    /\ UNCHANGED <<riskProfile, geminiApiKey, ledgerVars, mainPc, cycleVars, clock, message, closeResult>>

\* the effect of one price lookup settling in handler h: the position is
\* closed at the price found, or at its entry price; after the last
\* position the summary is printed and the process exits with 0
CloseNext(h, lookup) ==
    LET hd == handlers[h]
        st == closeIteration([positions |-> positions, allocatedCapital |-> allocatedCapital, closedPositions |-> hd.closedPositions, totalPnL |-> hd.totalPnL], hd.positions[hd.k], lookup)
        seen == Append(hd.lookups, lookup.kind)
        counted == Append(hd.samples, Len(lookup.metrics))
    IN /\ positions' = st.positions
       /\ allocatedCapital' = st.allocatedCapital
       /\ IF hd.k = Len(hd.positions)
          THEN /\ handlers' = [handlers EXCEPT ![h] = [@ EXCEPT !.pc = "done", !.lookups = seen, !.samples = counted, !.closedPositions = st.closedPositions, !.totalPnL = st.totalPnL]]
               /\ closeResult' = [done |-> TRUE, snapshot |-> hd.positions, lookups |-> seen, samples |-> counted, closedPositions |-> st.closedPositions, totalPnL |-> st.totalPnL]
               /\ process' = "exit0"
          ELSE /\ handlers' = [handlers EXCEPT ![h] = [@ EXCEPT !.k = @ + 1, !.lookups = seen, !.samples = counted, !.closedPositions = st.closedPositions, !.totalPnL = st.totalPnL]]
               /\ closeResult' = closeResult
               /\ process' = process

\* getTradeMetrics returns samples (or none) to closeAllPositions
LookupReturns ==
    /\ process = "running"
    /\ \E h \in 1..Len(handlers) :
         /\ handlers[h].pc = "lookup"
         /\ \E metrics \in LookupMetrics : CloseNext(h, Lookup("returned", metrics))
    /\ UNCHANGED <<riskProfile, geminiApiKey, mainPc, cycleVars, clock, message>>

\* getTradeMetrics throws in closeAllPositions
LookupThrows ==
    /\ process = "running"
    /\ \E h \in 1..Len(handlers) :
         /\ handlers[h].pc = "lookup"
         /\ CloseNext(h, Lookup("threw", <<>>))
    /\ UNCHANGED <<riskProfile, geminiApiKey, mainPc, cycleVars, clock, message>>

\* the request of getTradeMetrics is never answered: fetch is called with
\* no timeout, and the handler waits for good
LookupHangs ==
    /\ process = "running"
    /\ \E h \in 1..Len(handlers) :
         /\ handlers[h].pc = "lookup"
         /\ handlers' = [handlers EXCEPT ![h] = [@ EXCEPT !.pc = "hung"]]
    /\ UNCHANGED <<riskProfile, geminiApiKey, ledgerVars, mainPc, cycleVars, clock, message, process, closeResult>>

MainStep ==
    \/ SelectRiskProfile
    \/ MainLoopSleepDone
    \/ GetCurrenciesThrows
    \/ GetCurrenciesReturns
    \/ FetchMetricsReturns
    \/ FetchMetricsThrows
    \/ FetchSleepDone
    \/ AnalyzeSettles
    \/ ExecuteStep

HandlerStep ==
    \/ LookupReturns
    \/ LookupThrows

Next ==
    \/ MainStep
    \/ Sigint
    \/ HandlerStep
    \/ LookupHangs

Spec == Init /\ [][Next]_vars

(***************************************************************************)
(* The engine on its own: a caller that runs executeDecision and           *)
(* closeAllPositions one after the other, any number of times, each call   *)
(* to its end before the next.                                             *)
(***************************************************************************)
HarnessDecisions == {Decision(id, d, t, ConfGemini, "Market analysis completed", p) : id \in CurrencyIds, d \in {"open", "close", "hold"}, t \in {"long", "short"}, p \in {100}}

HarnessLookups == {Lookup("noClient", <<>>), Lookup("threw", <<>>), Lookup("returned", <<>>), Lookup("returned", <<SampleBear>>), Lookup("returned", <<SampleRise>>)}

InitLedger ==
    /\ riskProfile \in RiskProfiles
    /\ geminiApiKey = FALSE
    /\ positions = <<>>
    /\ allocatedCapital = 0
    /\ mainPc = "engine"
    /\ currencies = <<>>
    /\ currenciesWithMetrics = <<>>
    /\ gemini = NoGemini
    /\ analysis = NoAnalysis
    /\ i = 0
    /\ clock = 0
    /\ message = "none"
    /\ handlers = <<>>
    /\ process = "running"
    /\ closeResult = NoCloseResult

\* executeDecision(aiDecision); analysis.decisions[1] keeps the decision
\* of the call and message its result, until the next call
EngineExecuteDecision ==
    /\ mainPc = "engine"
    /\ \E aiDecision \in HarnessDecisions :
         /\ LET r == executeDecision(positions, allocatedCapital, getRiskParameters(riskProfile), aiDecision, clock)
            IN /\ positions' = r.positions
               /\ allocatedCapital' = r.allocatedCapital
               /\ message' = r.message
         /\ analysis' = Returned(<<aiDecision>>)
    /\ i' = 1
    /\ closeResult' = NoCloseResult
    /\ UNCHANGED <<riskProfile, geminiApiKey, mainPc, currencies, currenciesWithMetrics, gemini, clock, handlers, process>>

\* closeAllPositions(bitqueryClient), run to its end; closeResult keeps
\* its result until the next call
EngineCloseAllPositions ==
    /\ mainPc = "engine"
    /\ \E lookups \in [1..Len(positions) -> HarnessLookups] :
         LET st == closeAllPositions(positions, allocatedCapital, lookups)
         IN /\ positions' = st.positions
            /\ allocatedCapital' = st.allocatedCapital
            /\ closeResult' = [done |-> TRUE, snapshot |-> positions, lookups |-> [j \in 1..Len(positions) |-> lookups[j].kind], samples |-> [j \in 1..Len(positions) |-> Len(lookups[j].metrics)], closedPositions |-> st.closedPositions, totalPnL |-> st.totalPnL]
    /\ analysis' = NoAnalysis
    /\ i' = 0
    /\ message' = "none"
    /\ UNCHANGED <<riskProfile, geminiApiKey, mainPc, currencies, currenciesWithMetrics, gemini, clock, handlers, process>>

NextLedger ==
    \/ EngineExecuteDecision
    \/ EngineCloseAllPositions

SpecLedger == InitLedger /\ [][NextLedger]_vars

(***************************************************************************)
(* analyzeMultipleWithAI on its own: one call on a batch of metric         *)
(* records, for every answer of the collaborator.                          *)
(***************************************************************************)
ResolveRecords ==
    {MetricRecord(id, "number", <<SampleBull>>) : id \in CurrencyIds}
    \cup {MetricRecord(IdSolX, "number", <<>>), MetricRecord(IdEthX, "number", <<SampleNoPrice>>)}
    \cup {MetricRecord(IdY, "number", <<SampleBear, SampleNoOhlc>>), MetricRecord(IdY, "undefined", <<SampleBull>>)}

\* entries: well-formed ones, one whose action is no string, an object
\* without currencyId, a primitive and null
ResolveItems ==
    {Item("object", id, "OPEN LONG", "undefined", "undefined") : id \in CurrencyIds}
    \cup {Item("object", IdSolX, "Close", "SHORT", "Exit"), Item("object", IdEthX, "#number", "undefined", "undefined")}
    \cup {Item("object", IdY, "open short", "undefined", "undefined"), Item("object", IdY, "OPEN LONG", "Neutral", "undefined")}
    \cup {Item("object", NoId, "HOLD", "undefined", "undefined"), ItemPrimitive, ItemNull}

ResolveAnswers == {Gemini(k, <<>>) : k \in GeminiKinds \ {"list"}} \cup {Gemini("list", items) : items \in SeqUpTo(ResolveItems, MaxEntries)}

InitResolve ==
    /\ riskProfile = "low"
    /\ geminiApiKey \in BOOLEAN
    /\ positions = <<>>
    /\ allocatedCapital = 0
    /\ mainPc = "resolver"
    /\ currencies = <<>>
    /\ currenciesWithMetrics \in SeqUpTo(ResolveRecords, MaxBatch)
    /\ gemini = NoGemini
    /\ analysis = NoAnalysis
    /\ i = 0
    /\ clock = 0
    /\ message = "none"
    /\ handlers = <<>>
    /\ process = "running"
    /\ closeResult = NoCloseResult

\* one call of analyzeMultipleWithAI(currenciesWithMetrics)
ResolveCall ==
    /\ mainPc = "resolver"
    /\ \E answer \in (IF geminiInvoked(geminiApiKey, currenciesWithMetrics) THEN ResolveAnswers ELSE {NoGemini}) :
         /\ gemini' = answer
         /\ analysis' = analyzeMultipleWithAI(geminiApiKey, answer, currenciesWithMetrics)
    /\ mainPc' = "resolved"
    /\ UNCHANGED <<riskProfile, geminiApiKey, ledgerVars, currencies, currenciesWithMetrics, i, clock, message, handlers, process, closeResult>>

NextResolve == ResolveCall

SpecResolve == InitResolve /\ [][NextResolve]_vars

(***************************************************************************)
(* fallbackDecision on its own: one call on one record, for every sample   *)
(* list of up to MaxSamples samples.                                       *)
(***************************************************************************)
FallbackRecords == {MetricRecord(id, vol, tm) : id \in CurrencyIds, vol \in {"number", "object"}, tm \in SeqUpTo(Samples, MaxSamples)}

InitFallback ==
    /\ riskProfile \in RiskProfiles
    /\ geminiApiKey = FALSE
    /\ positions = <<>>
    /\ allocatedCapital = 0
    /\ mainPc = "heuristic"
    /\ currencies = <<>>
    /\ \E r \in FallbackRecords : currenciesWithMetrics = <<r>>
    /\ gemini = NoGemini
    /\ analysis = NoAnalysis
    /\ i = 0
    /\ clock = 0
    /\ message = "none"
    /\ handlers = <<>>
    /\ process = "running"
    /\ closeResult = NoCloseResult

\* fallbackDecision(currencyId, volatilityData, tradeMetrics) on the
\* record; analysis keeps what the call returned, or that it threw
FallbackCall ==
    /\ mainPc = "heuristic"
    /\ LET r == currenciesWithMetrics[1]
       IN analysis' = IF fallbackDecisionThrows(r.currencyId, r.volatilityData, r.tradeMetrics)
                      THEN Threw
                      ELSE Returned(<<fallbackDecision(r.currencyId, r.volatilityData, r.tradeMetrics)>>)
    /\ mainPc' = "decided"
    /\ UNCHANGED <<riskProfile, geminiApiKey, ledgerVars, currencies, currenciesWithMetrics, gemini, i, clock, message, handlers, process, closeResult>>

NextFallback == FallbackCall

SpecFallback == InitFallback /\ [][NextFallback]_vars

(***************************************************************************)
(* The trading cycle of startAITrading on one selected currency whose      *)
(* volatility is known: percent is the number the provider gave as         *)
(* volatility (100 * standard deviation / average), which the currency     *)
(* carries next to its identifier.                                         *)
(***************************************************************************)
VolatilityPercents == {1, 3, 10}

RankedCurrency(id, v) == [Id |-> id, volatility |-> "number", percent |-> v]

InitEligible ==
    /\ riskProfile \in RiskProfiles
    /\ geminiApiKey \in BOOLEAN
    /\ positions = <<>>
    /\ allocatedCapital = 0
    /\ mainPc = "fetchMetrics"
    /\ \E id \in {IdSolX, IdY}, v \in VolatilityPercents : currencies = selectCurrenciesForTrading(riskProfile, <<RankedCurrency(id, v)>>)
    /\ currenciesWithMetrics = <<>>
    /\ gemini = NoGemini
    /\ analysis = NoAnalysis
    /\ i = 1
    /\ clock = 0
    /\ message = "none"
    /\ handlers = <<>>
    /\ process = "running"
    /\ closeResult = NoCloseResult

NextEligible ==
    \/ FetchMetricsReturns
    \/ FetchMetricsThrows
    \/ FetchSleepDone
    \/ AnalyzeSettles
    \/ ExecuteStep

SpecEligible == InitEligible /\ [][NextEligible]_vars

(***************************************************************************)
(* selectCurrenciesForTrading on its own, on ranked lists longer than the  *)
(* ten it keeps.                                                           *)
(***************************************************************************)
\* the provider's lists: volatility never rises along the list; from one
\* currency to the next it stays or drops by one
RankedLists ==
    UNION {{[j \in 1..n |-> RankedCurrency(IF j % 2 = 1 THEN IdSolX ELSE IdY, MaxRanked + 1 - Cardinality({m \in 1..j : drops[m] = 1}))] : drops \in [1..n -> {0, 1}]} : n \in 0..MaxRanked}

\* the call as its caller sees it: what it returns, and the list it was
\* handed, which it copies ([...currencies]) before reversing
selectCall(profile, cs) == [returned |-> selectCurrenciesForTrading(profile, cs), currencies |-> cs]

InitSelect ==
    /\ riskProfile \in RiskProfiles
    /\ geminiApiKey = FALSE
    /\ positions = <<>>
    /\ allocatedCapital = 0
    /\ mainPc = "select"
    /\ currencies \in RankedLists
    /\ currenciesWithMetrics = <<>>
    /\ gemini = NoGemini
    /\ analysis = NoAnalysis
    /\ i = 0
    /\ clock = 0
    /\ message = "none"
    /\ handlers = <<>>
    /\ process = "running"
    /\ closeResult = NoCloseResult

\* selectCurrenciesForTrading(currencies); analysis keeps what the call
\* returned, currencies is the caller's list after the call
SelectCall ==
    /\ mainPc = "select"
    /\ LET r == selectCall(riskProfile, currencies)
       IN /\ analysis' = Returned(r.returned)
          /\ currencies' = r.currencies
    /\ mainPc' = "selected"
    /\ UNCHANGED <<riskProfile, geminiApiKey, ledgerVars, currenciesWithMetrics, gemini, i, clock, message, handlers, process, closeResult>>

NextSelect == SelectCall

SpecSelect == InitSelect /\ [][NextSelect]_vars

(***************************************************************************)
(* The execute loop of startAITrading on its own (index.js:125-140), on a  *)
(* batch of decisions as analyzeMultipleWithAI returns it, one of whose    *)
(* records may have come without an identifier.                            *)
(***************************************************************************)
BatchDecisions ==
    {Decision(id, "open", "long", ConfGemini, "Market analysis completed", 100) : id \in {IdSolX, IdY, NoId}}
    \cup {Decision(id, "close", "long", ConfGemini, "Market analysis completed", 115) : id \in {IdSolX, IdY, NoId}}
    \cup {Decision(id, "hold", "long", ConfGemini, "Market analysis completed", 100) : id \in {IdSolX, IdY, NoId}}

InitBatch ==
    /\ riskProfile \in RiskProfiles
    /\ geminiApiKey = TRUE
    /\ positions = <<>>
    /\ allocatedCapital = 0
    /\ mainPc = "execute"
    /\ currencies = <<>>
    /\ \E ds \in SeqUpTo(BatchDecisions, MaxDecisions) :
         /\ Len(ds) > 0
         /\ analysis = Returned(ds)
         /\ currenciesWithMetrics = [j \in 1..Len(ds) |-> MetricRecord(ds[j].currencyId, "number", <<>>)]
    /\ gemini = NoGemini
    /\ i = 1
    /\ clock = 0
    /\ message = "none"
    /\ handlers = <<>>
    /\ process = "running"
    /\ closeResult = NoCloseResult

\* decision i is executed and its message printed; closeResult keeps in
\* closedPositions what closePosition returned to this executeDecision
BatchExecuteStep ==
    /\ mainPc = "execute"
    /\ ~executeDecisionThrows(analysis.decisions[i])
    /\ LET r == executeDecision(positions, allocatedCapital, getRiskParameters(riskProfile), analysis.decisions[i], clock)
       IN /\ positions' = r.positions
          /\ allocatedCapital' = r.allocatedCapital
          /\ message' = r.message
          /\ closeResult' = [NoCloseResult EXCEPT !.closedPositions = r.closed]
    /\ clock' = clock + 1
    /\ i' = i + 1
    /\ mainPc' = IF i = Len(currenciesWithMetrics) THEN "resting" ELSE "execute"
    /\ UNCHANGED <<riskProfile, geminiApiKey, currencies, currenciesWithMetrics, gemini, analysis, handlers, process>>

\* executeDecision throws for decision i: the catch logs the error and
\* the loop goes on with the next decision
BatchExecuteThrows ==
    /\ mainPc = "execute"
    /\ executeDecisionThrows(analysis.decisions[i])
    /\ message' = "Error executing decision"
    /\ closeResult' = NoCloseResult
    /\ i' = i + 1
    /\ mainPc' = IF i = Len(currenciesWithMetrics) THEN "resting" ELSE "execute"
    /\ UNCHANGED <<riskProfile, geminiApiKey, ledgerVars, currencies, currenciesWithMetrics, gemini, analysis, clock, handlers, process>>

NextBatch ==
    \/ BatchExecuteStep
    \/ BatchExecuteThrows

SpecBatch == InitBatch /\ [][NextBatch]_vars

(***************************************************************************)
(* The engine over a run of decisions that carry the prices observed for   *)
(* their currencies: entryPrice of a decision is the latest estimate of    *)
(* the currency's price.  executeDecision is the only entry of the engine  *)
(* that is handed a price while positions are held.                        *)
(***************************************************************************)
WatchPrices == {50, 100, 120}

WatchDecisions == {Decision(id, d, "long", ConfFallback, "Fallback: Price above SMA with bullish candle", p) : id \in {IdSolX, IdY}, d \in {"open", "hold"}, p \in WatchPrices}

InitWatch == InitLedger

\* executeDecision(aiDecision); analysis.decisions[1] keeps the decision
\* of the call and message its result
WatchExecuteDecision ==
    /\ mainPc = "engine"
    /\ \E aiDecision \in WatchDecisions :
         /\ LET r == executeDecision(positions, allocatedCapital, getRiskParameters(riskProfile), aiDecision, clock)
            IN /\ positions' = r.positions
               /\ allocatedCapital' = r.allocatedCapital
               /\ message' = r.message
         /\ analysis' = Returned(<<aiDecision>>)
    /\ i' = 1
    /\ UNCHANGED <<riskProfile, geminiApiKey, mainPc, currencies, currenciesWithMetrics, gemini, clock, handlers, process, closeResult>>

NextWatch == WatchExecuteDecision

SpecWatch == InitWatch /\ [][NextWatch]_vars

(***************************************************************************)
(* getRiskParameters on its own, as the constructor calls it for the tag   *)
(* it is given.                                                            *)
(***************************************************************************)
\* tags that are neither "low" nor "high"; "undefined" stands for a
\* missing tag
UnknownTags == {"undefined", "null", "", "medium", "LOW", "Low", "HIGH", "High", " low", "high ", "1", "2", "0", "lowrisk", "profiles"}

ProfileTags == RiskProfiles \cup UnknownTags \cup ObjectPrototypeNames

InitRisk ==
    /\ riskProfile \in ProfileTags
    /\ geminiApiKey \in BOOLEAN
    /\ positions = <<>>
    /\ allocatedCapital = 0
    /\ mainPc = "construct"
    /\ currencies = <<>>
    /\ currenciesWithMetrics = <<>>
    /\ gemini = NoGemini
    /\ analysis = NoAnalysis
    /\ i = 0
    /\ clock = 0
    /\ message = "none"
    /\ handlers = <<>>
    /\ process = "running"
    /\ closeResult = NoCloseResult

\* new TradingEngine(riskProfile, geminiApiKey): this.riskParams is
\* getRiskParameters(riskProfile); analysis keeps what the call returned
RiskConstruct ==
    /\ mainPc = "construct"
    /\ analysis' = Returned(<<getRiskParameters(riskProfile)>>)
    /\ mainPc' = "constructed"
    /\ UNCHANGED <<riskProfile, geminiApiKey, ledgerVars, currencies, currenciesWithMetrics, gemini, i, clock, message, handlers, process, closeResult>>

NextRisk == RiskConstruct

SpecRisk == InitRisk /\ [][NextRisk]_vars

(***************************************************************************)
(* parseCurrencyId on the identifier as text: a sequence of characters,    *)
(* ':' among them.                                                         *)
(***************************************************************************)
IdChars == {"a", "b", ":"}

IdTexts == SeqUpTo(IdChars, MaxIdLen)

\* the network names the code writes out
TextEthereum == <<"e", "t", "h", "e", "r", "e", "u", "m">>

TextUnknown == <<"u", "n", "k", "n", "o", "w", "n">>

\* currencyId.split(':'): the empty text gives one empty part
RECURSIVE split(_)
split(text) ==
    IF \A k \in 1..Len(text) : text[k] # ":"
    THEN <<text>>
    ELSE LET k == CHOOSE k \in 1..Len(text) : text[k] = ":" /\ \A m \in 1..(k - 1) : text[m] # ":"
         IN <<SubSeq(text, 1, k - 1)>> \o split(SubSeq(text, k + 1, Len(text)))

\* a parser that reads the first three parts of any longer identifier
parseCurrencyIdTextLoose(currencyId) ==
    LET parts == split(currencyId)
    IN IF Len(parts) >= 3 THEN [network |-> parts[2], address |-> parts[3]]
       ELSE IF Len(parts) = 2 THEN [network |-> TextEthereum, address |-> parts[2]]
       ELSE [network |-> TextUnknown, address |-> currencyId]

\* parseCurrencyId
parseCurrencyIdText(currencyId) ==
    LET parts == split(currencyId)
    IN IF Len(parts) = 3 THEN [network |-> parts[2], address |-> parts[3]]
       ELSE IF Len(parts) = 2 THEN [network |-> TextEthereum, address |-> parts[2]]
       ELSE [network |-> TextUnknown, address |-> currencyId]

InitParse ==
    /\ riskProfile = "low"
    /\ geminiApiKey = FALSE
    /\ positions = <<>>
    /\ allocatedCapital = 0
    /\ mainPc = "parse"
    /\ \E text \in IdTexts : currencies = <<[Id |-> text, volatility |-> "number"]>>
    /\ currenciesWithMetrics = <<>>
    /\ gemini = NoGemini
    /\ analysis = NoAnalysis
    /\ i = 0
    /\ clock = 0
    /\ message = "none"
    /\ handlers = <<>>
    /\ process = "running"
    /\ closeResult = NoCloseResult

\* parseCurrencyId(currencyId) on the identifier of the currency; analysis
\* keeps what the call returned
ParseCall ==
    /\ mainPc = "parse"
    /\ analysis' = Returned(<<parseCurrencyIdText(currencies[1].Id)>>)
    /\ mainPc' = "parsed"
    /\ UNCHANGED <<riskProfile, geminiApiKey, ledgerVars, currencies, currenciesWithMetrics, gemini, i, clock, message, handlers, process, closeResult>>

NextParse == ParseCall

SpecParse == InitParse /\ [][NextParse]_vars

(***************************************************************************)
(* fallbackDecision called twice on the same identifier and samples, in    *)
(* two surroundings: between the calls the engine may be another one, with *)
(* another profile, a changed ledger and a later clock, and the second     *)
(* call is handed any volatility data.                                     *)
(***************************************************************************)
InitTwice == InitFallback

\* the first call, on the record as it is
TwiceFirstCall ==
    /\ mainPc = "heuristic"
    /\ LET r == currenciesWithMetrics[1]
       IN analysis' = IF fallbackDecisionThrows(r.currencyId, r.volatilityData, r.tradeMetrics)
                      THEN Threw
                      ELSE Returned(<<fallbackDecision(r.currencyId, r.volatilityData, r.tradeMetrics)>>)
    /\ i' = 1
    /\ mainPc' = "between"
    /\ UNCHANGED <<riskProfile, geminiApiKey, ledgerVars, currencies, currenciesWithMetrics, gemini, clock, message, handlers, process, closeResult>>

\* between the calls: an engine of any profile executes a decision, and
\* time passes
TwiceSurroundingsChange ==
    /\ mainPc = "between"
    /\ riskProfile' \in RiskProfiles
    /\ \E aiDecision \in HarnessDecisions :
         LET r == executeDecision(positions, allocatedCapital, getRiskParameters(riskProfile'), aiDecision, clock)
         IN /\ positions' = r.positions
            /\ allocatedCapital' = r.allocatedCapital
            /\ message' = r.message
    /\ clock' = clock + 1
    /\ mainPc' = "again"
    /\ UNCHANGED <<geminiApiKey, currencies, currenciesWithMetrics, gemini, analysis, i, handlers, process, closeResult>>

\* the second call: same identifier, same samples, any volatility data;
\* the record of the call is kept next to the first one
TwiceSecondCall ==
    /\ mainPc \in {"between", "again"}
    /\ \E volatilityData \in {"number", "object"} :
         LET r == currenciesWithMetrics[1]
         IN /\ currenciesWithMetrics' = Append(currenciesWithMetrics, MetricRecord(r.currencyId, volatilityData, r.tradeMetrics))
            /\ analysis' = IF fallbackDecisionThrows(r.currencyId, volatilityData, r.tradeMetrics)
                           THEN Threw
                           ELSE Returned(Append(analysis.decisions, fallbackDecision(r.currencyId, volatilityData, r.tradeMetrics)))
    /\ i' = 2
    /\ mainPc' = "decided"
    /\ UNCHANGED <<riskProfile, geminiApiKey, ledgerVars, currencies, gemini, clock, message, handlers, process, closeResult>>

NextTwice ==
    \/ TwiceFirstCall
    \/ TwiceSurroundingsChange
    \/ TwiceSecondCall

SpecTwice == InitTwice /\ [][NextTwice]_vars

\* the program under the scheduling Node gives it: a timer that is due
\* fires and a request that settles is handled.  Nothing makes a request
\* settle, so LookupHangs is under no fairness
SpecLive == Spec /\ WF_vars(MainStep) /\ WF_vars(HandlerStep)

(***************************************************************************)
(* Properties                                                              *)
(***************************************************************************)

\* C1: analyzeMultipleWithAI returns, for every batch of N records and
\* every answer of the collaborator, exactly N decisions, decision j
\* carrying the currencyId of record j.
C1_OrderCorrespondence ==
    mainPc = "resolved" =>
        /\ analysis.status = "returned"
        /\ Len(analysis.decisions) = Len(currenciesWithMetrics)
        /\ \A j \in 1..Len(currenciesWithMetrics) : analysis.decisions[j].currencyId = currenciesWithMetrics[j].currencyId

\* C2: analyzeMultipleWithAI never raises: whatever the samples of the
\* batch and whatever the collaborator does, the call completes with a
\* list of decisions.
C2_NeverRaises == analysis.status # "threw"

\* C3: in every state of the ledger the program reaches,
\* 0 <= allocatedCapital <= capital.
C3_CapitalRange == 0 <= allocatedCapital /\ allocatedCapital <= capital

\* C4: in every state of the ledger, allocatedCapital is the sum of the
\* sizes of the positions stored in the positions map.
C4_CapitalIsSumOfSizes == allocatedCapital = SumSizes(positions)

\* C5: an open decision executed while allocatedCapital >= 0.9 * capital
\* opens nothing (openPosition returns null, so the message is empty) and
\* leaves the positions map and allocatedCapital as they were.
C5_CapitalGuard ==
    [][(/\ analysis'.status = "returned"
        /\ analysis'.decisions[1].decision = "open"
        /\ allocatedCapital * 10 >= capital * 9)
       => (message' = "" /\ positions' = positions /\ allocatedCapital' = allocatedCapital)]_vars

\* C5 happens: an open decision has just been turned down at the guard
C5_GuardRejected ==
    /\ analysis.status = "returned"
    /\ analysis.decisions[1].decision = "open"
    /\ message = ""
    /\ allocatedCapital * 10 >= capital * 9
    /\ Len(positions) > 0

\* C6: under both risk profiles allocatedCapital never exceeds
\* 0.9 * capital.
C6_NinetyPercentBuffer == allocatedCapital * 10 <= capital * 9

\* C6 happens: an open has just brought the allocation to exactly 90%
C6_BufferReached == message = "Opening" /\ allocatedCapital * 10 = capital * 9

\* C7: a closeAllPositions call that has run to completion has closed as
\* many positions as were open when it was called, and none of those
\* positions is in the positions map any more, whatever the price lookups
\* came to.
C7_LiquidationComplete ==
    closeResult.done =>
        /\ Len(closeResult.closedPositions) = Len(closeResult.snapshot)
        /\ \A j \in 1..Len(closeResult.snapshot) : \A k \in 1..Len(positions) : positions[k] # closeResult.snapshot[j]

\* C7 happens: a call on two open positions has completed after one
\* lookup threw and another returned
C7_CompletedWithFailedLookup ==
    /\ closeResult.done
    /\ Len(closeResult.snapshot) = 2
    /\ \E j, k \in 1..2 : closeResult.lookups[j] = "threw" /\ closeResult.lookups[k] = "returned"

\* C8: when the process exits through the SIGINT handler (status 0), the
\* ledger holds no open position.
C8_ExitLeavesNoPosition == process = "exit0" => Len(positions) = 0

\* C9: once SIGINT is delivered the process eventually exits, even if
\* the price lookups of closeAllPositions fail or are never answered.
C9_ShutdownTerminates == (Len(handlers) > 0) ~> (process # "running")

\* C10: when the response is a list of well-formed entries that names
\* some, but not all, of the identifiers of the batch, every record whose
\* identifier the response lacks gets the decision of fallbackDecision for
\* that record, every other record the decision derived from its entry,
\* and the output has the order and the length of the batch.
C10_PartialAnswerReconciled ==
    LET has(j) == decisionMapHas(gemini.items, currenciesWithMetrics[j].currencyId)
        partial ==
            /\ gemini.kind = "list"
            /\ \A j \in 1..Len(gemini.items) : gemini.items[j].kind = "object" /\ ~itemThrows(gemini.items[j])
            /\ \E j \in 1..Len(currenciesWithMetrics) : has(j)
            /\ \E j \in 1..Len(currenciesWithMetrics) : ~has(j)
    IN (mainPc = "resolved" /\ partial) =>
        /\ analysis.status = "returned"
        /\ Len(analysis.decisions) = Len(currenciesWithMetrics)
        /\ \A j \in 1..Len(currenciesWithMetrics) :
             LET rec == currenciesWithMetrics[j]
             IN analysis.decisions[j] =
                  IF has(j)
                  THEN itemDecision(decisionMapGet(gemini.items, rec.currencyId), rec.currencyId, rec.tradeMetrics)
                  ELSE fallbackDecision(rec.currencyId, rec.volatilityData, rec.tradeMetrics)

\* C11: when the response is a list in which an entry is malformed (null,
\* or an action or positionType that is no string) every record whose own
\* entry is well-formed still gets the decision derived from that entry.
\* Stated for batches whose samples fallbackDecision can decide.
C11_PerEntryDegradation ==
    LET rec(j) == currenciesWithMetrics[j]
        has(j) == decisionMapHas(gemini.items, rec(j).currencyId)
        malformed(item) == item.kind = "null" \/ (item.kind = "object" /\ itemThrows(item))
    IN (/\ mainPc = "resolved"
        /\ gemini.kind = "list"
        /\ \E k \in 1..Len(gemini.items) : malformed(gemini.items[k])
        /\ \A j \in 1..Len(currenciesWithMetrics) : ~fallbackDecisionThrows(rec(j).currencyId, rec(j).volatilityData, rec(j).tradeMetrics))
       => /\ analysis.status = "returned"
          /\ \A j \in 1..Len(currenciesWithMetrics) :
               (has(j) /\ ~malformed(decisionMapGet(gemini.items, rec(j).currencyId)))
               => analysis.decisions[j] = itemDecision(decisionMapGet(gemini.items, rec(j).currencyId), rec(j).currencyId, rec(j).tradeMetrics)

C14_PnlCorrect ==
    \A j \in 1..Len(closeResult.closedPositions) :
        LET c == closeResult.closedPositions[j]
            move == (c.currentPrice - c.position.entryPrice) * c.position.size
        IN c.position.entryPrice > 0 =>
             /\ c.pnl.kind = "finite"
             /\ c.position.type = "long" => c.pnl.v * c.position.entryPrice = move
             /\ c.position.type = "short" => c.pnl.v * c.position.entryPrice = 0 - move
             /\ (c.position.type = "long" /\ c.currentPrice > c.position.entryPrice) => c.pnl.v > 0
             /\ (c.position.type = "short" /\ c.currentPrice > c.position.entryPrice) => c.pnl.v < 0
             /\ (c.position.type = "long" /\ c.position.size = 30000 /\ c.position.entryPrice = 100 /\ c.currentPrice = 115) => c.pnl.v = 4500

\* C14 happens: a long and a short of 30000, both entered at 100, were
\* closed at 115 with 4500 and -4500
C14_LongAndShortClosedAt115 ==
    /\ Len(closeResult.closedPositions) = 2
    /\ \E j, k \in 1..2 :
         /\ closeResult.closedPositions[j].position.type = "long"
         /\ closeResult.closedPositions[k].position.type = "short"
         /\ \A n \in {j, k} : /\ closeResult.closedPositions[n].position.size = 30000
                              /\ closeResult.closedPositions[n].position.entryPrice = 100
                              /\ closeResult.closedPositions[n].currentPrice = 115
         /\ closeResult.closedPositions[j].pnl = Finite(4500)
         /\ closeResult.closedPositions[k].pnl = Finite(0 - 4500)

\* C15: a record whose identifier has a well-formed entry in the response
\* gets a decision whose action is open when the entry's action text
\* contains "OPEN" in any case, else close when it contains "CLOSE", else
\* hold (also with no action); whose positionType is the entry's explicit
\* positionType (in lower case) when given, else short when the action
\* text contains "SHORT", else long; and whose confidence is 0.7.  Stated
\* for batches whose samples fallbackDecision can decide.
C15_ResponseNormalized ==
    LET rec(j) == currenciesWithMetrics[j]
        has(j) == decisionMapHas(gemini.items, rec(j).currencyId)
        entry(j) == decisionMapGet(gemini.items, rec(j).currencyId)
        wellFormed(item) == item.kind = "object" /\ item.action # "#number" /\ item.positionType # "#number"
        opens == {"OPEN LONG", "open short"}
        closes == {"Close"}
        shorts == {"open short"}
        lower(t) == IF t = "SHORT" THEN "short" ELSE IF t = "Neutral" THEN "neutral" ELSE t
    IN (/\ mainPc = "resolved"
        /\ gemini.kind = "list"
        /\ \A j \in 1..Len(currenciesWithMetrics) : ~fallbackDecisionThrows(rec(j).currencyId, rec(j).volatilityData, rec(j).tradeMetrics))
       => \A j \in 1..Len(currenciesWithMetrics) :
            (has(j) /\ wellFormed(entry(j))) =>
               /\ analysis.status = "returned"
               /\ analysis.decisions[j].decision = (IF entry(j).action \in opens THEN "open" ELSE IF entry(j).action \in closes THEN "close" ELSE "hold")
               /\ analysis.decisions[j].positionType = (IF entry(j).positionType # "undefined" THEN lower(entry(j).positionType)
                                                        ELSE IF entry(j).action \in shorts THEN "short" ELSE "long")
               /\ analysis.decisions[j].confidence = ConfGemini

\* C16: every decision analyzeMultipleWithAI returns, for any response of
\* the collaborator, has its action in {open, close, hold}, its
\* positionType in {long, short, null} and its confidence in [0, 1].
C16_DecisionDomain ==
    (mainPc = "resolved" /\ analysis.status = "returned") =>
        \A j \in 1..Len(analysis.decisions) :
            /\ analysis.decisions[j].decision \in {"open", "close", "hold"}
            /\ analysis.decisions[j].positionType \in {"long", "short", "null"}
            /\ analysis.decisions[j].confidence \in 0..10

\* C17: every position stored in the ledger, after any sequence of
\* resolved decisions was executed, has entryPrice > 0, size > 0 and a
\* type in {long, short}.
C17_PositionWellFormed ==
    \A k \in 1..Len(positions) :
        /\ positions[k].entryPrice > 0
        /\ positions[k].size > 0
        /\ positions[k].type \in {"long", "short"}

C19_CloseEffect ==
    [][/\ (analysis'.status = "returned" /\ analysis'.decisions[1].decision = "close" /\ message' = "Closing")
          => LET address == parseCurrencyId(analysis'.decisions[1].currencyId).address
                 at == {k \in 1..Len(positions) : positions[k].tokenAddress = address}
             IN /\ Cardinality(at) = 1
                /\ \A k \in at :
                     /\ positions' = [j \in 1..(Len(positions) - 1) |-> IF j < k THEN positions[j] ELSE positions[j + 1]]
                     /\ allocatedCapital' = allocatedCapital - positions[k].size
       /\ closeResult'.done
          => /\ Len(closeResult'.closedPositions) = Len(positions)
             /\ \A j \in 1..Len(positions) :
                  /\ closeResult'.closedPositions[j].position = positions[j]
                  /\ closeResult'.closedPositions[j].currentPrice \in Int
                  /\ closeResult'.closedPositions[j].pnl.kind \in {"finite", "NaN", "Infinity", "-Infinity"}
                  /\ closeResult'.closedPositions[j].currentPrice = positions[j].entryPrice
                       => closeResult'.closedPositions[j].pnl = Finite(0)
             /\ positions' = <<>>
             /\ allocatedCapital' = allocatedCapital - SumSizes(positions)]_vars

\* C19 happens: a close decision has removed the position at its address
\* and left the position at the other address in place
C19_ClosedOneOfTwo ==
    /\ analysis.status = "returned"
    /\ analysis.decisions[1].decision = "close"
    /\ message = "Closing"
    /\ Len(positions) = 1
    /\ positions[1].tokenAddress # parseCurrencyId(analysis.decisions[1].currencyId).address
    /\ allocatedCapital = positions[1].size

\* C20: in closeAllPositions a price lookup that throws, that returns no
\* samples, or that cannot be made because no client was given, closes its
\* position at the position's own entryPrice, with pnl 0 when entryPrice is
\* positive; the other positions of the snapshot are closed all the same,
\* and the returned totalPnL is the sum of the pnl of the returned closed
\* positions, added up in their order.
C20_BestEffortPricing ==
    closeResult.done =>
        LET closed == closeResult.closedPositions
            RECURSIVE sumPnl(_)
            sumPnl(n) == IF n = 0 THEN Finite(0) ELSE FloatAdd(sumPnl(n - 1), closed[n].pnl)
        IN /\ Len(closed) = Len(closeResult.snapshot)
           /\ \A j \in 1..Len(closeResult.snapshot) :
                /\ closed[j].position = closeResult.snapshot[j]
                /\ (\/ closeResult.lookups[j] \in {"threw", "noClient"}
                    \/ closeResult.lookups[j] = "returned" /\ closeResult.samples[j] = 0)
                   => /\ closed[j].currentPrice = closeResult.snapshot[j].entryPrice
                      /\ closeResult.snapshot[j].entryPrice > 0 => closed[j].pnl = Finite(0)
           /\ closeResult.totalPnL = sumPnl(Len(closed))

\* C20 happens: of two positions closed by one call, one had a lookup that
\* failed (it threw, gave no samples, or had no client) and closed with
\* pnl 0, the other was priced by its lookup and makes up the total
C20_FailedLookupNextToPricedOne ==
    /\ closeResult.done
    /\ Len(closeResult.snapshot) = 2
    /\ \E j, k \in 1..2 :
         /\ closeResult.lookups[j] = "threw"
         /\ closeResult.closedPositions[j].pnl = Finite(0)
         /\ closeResult.lookups[k] = "returned"
         /\ closeResult.samples[k] = 1
         /\ closeResult.closedPositions[k].pnl # Finite(0)
         /\ closeResult.totalPnL = closeResult.closedPositions[k].pnl

\* C21: the run ends with a non-zero exit status only when the initial
\* ranked-volatility fetch failed, and a failure of that fetch always ends
\* it so; no failure of a per-asset metric fetch, of the reasoning service,
\* of parsing its answer or of executing a decision ends the run.
C21_FatalOnlyOnRankedFetch ==
    process = "exit1" => mainPc = "getCurrencies"

\* C22: the batch handed to analyzeMultipleWithAI holds one record per
\* selected currency, in the order of selection, and while it is being
\* built it is a prefix of that; a currency whose metric fetch failed (its
\* record carries the currency object as volatilityData) has a record with
\* no samples.
C22_OneRecordPerCurrency ==
    /\ Len(currenciesWithMetrics) <= Len(currencies)
    /\ \A j \in 1..Len(currenciesWithMetrics) :
         /\ currenciesWithMetrics[j].currencyId = currencies[j].Id
         /\ currenciesWithMetrics[j].volatilityData = "object" => currenciesWithMetrics[j].tradeMetrics = <<>>
    /\ mainPc \in {"analyze", "execute", "resting"} => Len(currenciesWithMetrics) = Len(currencies)

\* C22 happens: a batch of two records was handed over, the first fetch
\* having failed and the second having returned a sample
C22_BatchWithFailedFetch ==
    /\ mainPc = "execute"
    /\ Len(currencies) = 2
    /\ currencies[1].Id # currencies[2].Id
    /\ Len(currenciesWithMetrics) = 2
    /\ currenciesWithMetrics[1].volatilityData = "object"
    /\ currenciesWithMetrics[1].tradeMetrics = <<>>
    /\ currenciesWithMetrics[2].volatilityData = "number"
    /\ Len(currenciesWithMetrics[2].tradeMetrics) = 1

C24_IdentifierParsing ==
    mainPc = "parsed" =>
        LET text == currencies[1].Id
            colons == {k \in 1..Len(text) : text[k] = ":"}
            first == CHOOSE k \in colons : \A m \in colons : k <= m
            last == CHOOSE k \in colons : \A m \in colons : m <= k
            result == analysis.decisions[1]
        IN /\ analysis.status = "returned"
           /\ Cardinality(colons) = 2 =>
                result = [network |-> SubSeq(text, first + 1, last - 1), address |-> SubSeq(text, last + 1, Len(text))]
           /\ Cardinality(colons) = 1 =>
                result = [network |-> TextEthereum, address |-> SubSeq(text, first + 1, Len(text))]
           /\ Cardinality(colons) \notin {1, 2} =>
                result = [network |-> TextUnknown, address |-> text]

\* C24 happens: an identifier of four parts was parsed as unknown, its
\* address the whole identifier
C24_FourPartsParsed ==
    /\ mainPc = "parsed"
    /\ currencies[1].Id = <<"a", ":", "b", ":", ":">>
    /\ analysis.decisions[1] = [network |-> TextUnknown, address |-> <<"a", ":", "b", ":", ":">>]

\* C25: getRiskParameters returns the low table (0.1, 0.02, 0.95, 1.05) for
\* tag low, the high table (0.3, 0.05, 0.90, 1.15) for tag high and the low
\* table for every other tag or none; what it returns always has
\* 0 < maxPositionSize <= 1, stopLoss < 1 and takeProfit > 1.
C25_RiskProfileResolution ==
    mainPc = "constructed" =>
        LET riskParams == analysis.decisions[1]
        IN /\ riskProfile = "high" =>
                riskParams = [maxPositionSize |-> 30, volatilityThreshold |-> 5, stopLoss |-> 90, takeProfit |-> 115]
           /\ riskProfile # "high" =>
                riskParams = [maxPositionSize |-> 10, volatilityThreshold |-> 2, stopLoss |-> 95, takeProfit |-> 105]
           /\ 0 < riskParams.maxPositionSize
           /\ riskParams.maxPositionSize <= 100
           /\ riskParams.stopLoss # Undefined /\ riskParams.stopLoss < 100
           /\ riskParams.takeProfit > 100

\* C26: a position whose observed price is at or below entryPrice * stopLoss,
\* or at or above entryPrice * takeProfit, is closed by the engine without a
\* close decision: once the engine has handled a decision that carries the
\* price observed for a currency, no position of that currency is left at
\* which that price has reached either mark.
C26_ForcedClose ==
    analysis.status = "returned" =>
        LET observed == analysis.decisions[1]
        IN \A k \in 1..Len(positions) :
             positions[k].currencyId = observed.currencyId =>
                 /\ observed.entryPrice * 100 > positions[k].entryPrice * positions[k].stopLoss
                 /\ observed.entryPrice * 100 < positions[k].entryPrice * positions[k].takeProfit

\* C27: under the low profile no position is held for a currency whose
\* volatility is above the profile's volatilityThreshold, and under the
\* high profile none for a currency whose volatility is not above it.
C27_VolatilityEligibility ==
    \A k \in 1..Len(positions) : \A j \in 1..Len(currencies) :
        currencies[j].Id = positions[k].currencyId =>
            /\ riskProfile = "low" => currencies[j].percent <= getRiskParameters(riskProfile).volatilityThreshold
            /\ riskProfile = "high" => currencies[j].percent > getRiskParameters(riskProfile).volatilityThreshold

\* C28: handed the provider's list, ordered by descending volatility,
\* selectCurrenciesForTrading returns min(10, length) currencies: under the
\* high profile the first ten in the given order, highest volatility
\* first; under the low profile the last ten in reversed order, lowest
\* volatility first; the list it was handed is as it was.
C28_CurrencySelection ==
    [][mainPc' = "selected" =>
         LET n == Len(currencies)
             selected == analysis'.decisions
         IN /\ Len(selected) = (IF n < 10 THEN n ELSE 10)
            /\ riskProfile = "high" =>
                 /\ \A j \in 1..Len(selected) : selected[j] = currencies[j]
                 /\ \A j \in 1..(Len(selected) - 1) : selected[j].percent >= selected[j + 1].percent
            /\ riskProfile = "low" =>
                 /\ \A j \in 1..Len(selected) : selected[j] = currencies[n + 1 - j]
                 /\ \A j \in 1..(Len(selected) - 1) : selected[j].percent <= selected[j + 1].percent
            /\ currencies' = currencies]_vars

\* C28 happens: under the low profile ten currencies were selected from a
\* list of twelve, the first selected being the last of the list and less
\* volatile than the tenth selected
C28_TenLowestOfTwelve ==
    /\ mainPc = "selected"
    /\ riskProfile = "low"
    /\ Len(currencies) = 12
    /\ Len(analysis.decisions) = 10
    /\ analysis.decisions[1] = currencies[12]
    /\ analysis.decisions[10] = currencies[3]
    /\ analysis.decisions[1].percent < analysis.decisions[10].percent

\* C29: once a SIGINT handler has started its liquidation, the trading
\* cycle (the steps that move the index i of its loops) performs no open
\* and no close: it leaves the positions map and allocatedCapital as they
\* are, so that the ledger is then changed by the liquidation alone.
C29_NoInterleavedMutation ==
    [][(Len(handlers) > 0 /\ i' # i) => UNCHANGED ledgerVars]_vars

\* C30: no position is closed twice.  Whenever a liquidation closes a
\* position (realizes its P&L and takes its size off allocatedCapital), the
\* positions map still holds an entry at that position's address: the
\* position was not closed before, by a close decision of the trading
\* cycle or by another liquidation; and over all liquidations of a run no
\* position is among the closed ones more than once.
C30_ClosedAtMostOnce ==
    [][/\ \A h \in 1..Len(handlers) :
            Len(handlers'[h].closedPositions) > Len(handlers[h].closedPositions)
              => mapHas(positions, handlers'[h].closedPositions[Len(handlers'[h].closedPositions)].position.tokenAddress)
       /\ \A g, h \in 1..Len(handlers') :
            \A a \in 1..Len(handlers'[g].closedPositions) : \A b \in 1..Len(handlers'[h].closedPositions) :
                handlers'[g].closedPositions[a].position = handlers'[h].closedPositions[b].position
                  => g = h /\ a = b]_vars

\* C31: in the trading cycle the ledger is untouched until the batched
\* decision call has settled; the call is settled only when a metric record
\* has been fetched for every selected currency; and the cycle changes the
\* ledger only by executing the decisions one at a time, decision i being
\* executed to its end in the step that moves the loop from i to i + 1.
C31_DecisionGating ==
    [][/\ analysis.status = "none" => positions = <<>> /\ allocatedCapital = 0
       /\ analysis' # analysis =>
            /\ mainPc = "analyze"
            /\ Len(currenciesWithMetrics) = Len(currencies)
            /\ UNCHANGED ledgerVars
       /\ (i' # i /\ ledgerVars' # ledgerVars) =>
            /\ mainPc = "execute"
            /\ analysis.status = "returned"
            /\ i' = i + 1
            /\ LET r == executeDecision(positions, allocatedCapital, getRiskParameters(riskProfile), analysis.decisions[i], clock)
               IN positions' = r.positions /\ allocatedCapital' = r.allocatedCapital]_vars

\* C31 happens: of two decisions returned by the batched call the first
\* has been executed and opened a position, the second is next
C31_FirstExecutedSecondPending ==
    /\ mainPc = "execute"
    /\ gemini.kind = "list"
    /\ analysis.status = "returned"
    /\ Len(currenciesWithMetrics) = 2
    /\ i = 2
    /\ Len(positions) = 1

\* C32: executing decision i of the batch opens a position at the
\* decision's address when the action is open and the capital guard
\* passes; closes the position stored at the decision's address, at the
\* decision's price, when the action is close; and leaves the ledger as it
\* is for hold, for a close at an address that holds no position and for an
\* open the capital guard declines.  When executing a decision fails the
\* ledger is as it was and the loop goes on: every step moves it to the
\* next decision, and it rests only after the last one.
C32_ExecutionOfOneDecision ==
    [][i' # i =>
         LET d == analysis.decisions[i]
             address == parseCurrencyId(d.currencyId).address
             held == {k \in 1..Len(positions) : positions[k].tokenAddress = address}
             size == IF riskProfile = "high" THEN 30000 ELSE 10000
         IN /\ i' = i + 1
            /\ mainPc' = (IF i < Len(analysis.decisions) THEN "execute" ELSE "resting")
            /\ d.currencyId = NoId => UNCHANGED ledgerVars
            /\ (d.currencyId # NoId /\ d.decision = "hold") => UNCHANGED ledgerVars
            /\ (d.currencyId # NoId /\ d.decision = "open" /\ allocatedCapital >= 90000) => UNCHANGED ledgerVars
            /\ (d.currencyId # NoId /\ d.decision = "open" /\ allocatedCapital < 90000) =>
                 /\ \E k \in 1..Len(positions') :
                      /\ positions'[k].tokenAddress = address
                      /\ positions'[k].currencyId = d.currencyId
                      /\ positions'[k].entryPrice = d.entryPrice
                      /\ positions'[k].size = size
                 /\ allocatedCapital' = allocatedCapital + size
                 /\ closeResult'.closedPositions = <<>>
            /\ (d.currencyId # NoId /\ d.decision = "close" /\ held = {}) =>
                 /\ UNCHANGED ledgerVars
                 /\ closeResult'.closedPositions = <<>>
            /\ (d.currencyId # NoId /\ d.decision = "close" /\ held # {}) =>
                 /\ \A k \in held :
                      /\ closeResult'.closedPositions[1].position = positions[k]
                      /\ allocatedCapital' = allocatedCapital - positions[k].size
                 /\ Len(closeResult'.closedPositions) = 1
                 /\ closeResult'.closedPositions[1].currentPrice = d.entryPrice
                 /\ positions' = SelectSeq(positions, LAMBDA q : q.tokenAddress # address)]_vars

\* C32 happens: a batch of four decisions was executed to its end; the
\* second decision failed, the third opened a position and the fourth
\* closed it at the fourth decision's price
C32_FailureThenOpenThenClose ==
    /\ mainPc = "resting"
    /\ Len(analysis.decisions) = 4
    /\ i = 5
    /\ analysis.decisions[2].currencyId = NoId
    /\ analysis.decisions[3].decision = "open"
    /\ analysis.decisions[4].decision = "close"
    /\ analysis.decisions[3].currencyId = analysis.decisions[4].currencyId
    /\ Len(closeResult.closedPositions) = 1
    /\ closeResult.closedPositions[1].currentPrice = 115
    /\ closeResult.closedPositions[1].position.id = 1

\* C33: a run goes through Idle, FetchingMetrics, ResolvingDecisions and
\* Executing and then repeats the cycle: a run that has executed its batch
\* and rests, and is neither cancelled nor ended, fetches metrics again.
C33_CycleRepeats ==
    (mainPc = "resting" /\ process = "running" /\ handlers = <<>>)
        ~> (mainPc \in {"getCurrencies", "fetchMetrics"} \/ process # "running" \/ handlers # <<>>)

\* C34: fallbackDecision on a record whose most recent sample carries Price
\* and Ohlc takes as sma the sample's weighted moving average whenever it
\* is there, 0 included, else the estimated price whenever it is there,
\* else close, and decides by that sma; the decision's entryPrice is the
\* estimated price whenever it is there, 0 included, else close.
C34_FallbackPriceDefaults ==
    (mainPc = "decided" /\ analysis.status = "returned") =>
        LET tm == currenciesWithMetrics[1].tradeMetrics
            d == analysis.decisions[1]
        IN (Len(tm) > 0 /\ tm[Len(tm)].hasPrice /\ tm[Len(tm)].hasOhlc) =>
             LET s == tm[Len(tm)]
                 estimate == IF s.hasAverage /\ s.Estimate # Undefined THEN s.Estimate ELSE s.Close
                 sma == IF s.hasAverage /\ s.WeightedSimpleMoving # Undefined THEN s.WeightedSimpleMoving ELSE estimate
                 up == s.Close > sma /\ s.Close > s.Open
                 down == s.Close <= sma /\ s.Close <= s.Open
             IN /\ d.entryPrice = estimate
                /\ up => (d.decision = "open" /\ d.positionType = "long")
                /\ down => (d.decision = "open" /\ d.positionType = "short")
                /\ (~up /\ ~down) => d.decision = "hold"

\* C35: the positions opened by any sequence of openPosition calls, two
\* opens with no clock advance between them included, carry pairwise
\* distinct ids.
C35_PositionIdsDistinct ==
    \A j, k \in 1..Len(positions) : j # k => positions[j].id # positions[k].id


(***************************************************************************)
(* The engine with a caller that opens and closes positions for four       *)
(* addresses, each call to its end before the next.                        *)
(***************************************************************************)
IdW == <<"bid", "solana", "W">>

IdZ == <<"Z">>

PortfolioIds == {IdSolX, IdY, IdW, IdZ}

PortfolioDecisions == {Decision(id, d, "long", ConfGemini, "Market analysis completed", 100) : id \in PortfolioIds, d \in {"open", "close"}}

\* "Max Positions: 3 concurrent positions" of lowRiskStrategy and
\* "Max Positions: 5 concurrent positions" of highRiskStrategy, by
\* getStrategy(riskProfile)
strategyMaxPositions(profile) == IF profile = "high" THEN 5 ELSE 3

InitPortfolio == InitLedger

\* executeDecision(aiDecision) of the four-address caller
PortfolioExecuteDecision ==
    /\ mainPc = "engine"
    /\ \E aiDecision \in PortfolioDecisions :
         /\ LET r == executeDecision(positions, allocatedCapital, getRiskParameters(riskProfile), aiDecision, clock)
            IN /\ positions' = r.positions
               /\ allocatedCapital' = r.allocatedCapital
               /\ message' = r.message
         /\ analysis' = Returned(<<aiDecision>>)
    /\ i' = 1
    /\ UNCHANGED <<riskProfile, geminiApiKey, mainPc, currencies, currenciesWithMetrics, gemini, clock, handlers, process, closeResult>>

NextPortfolio == PortfolioExecuteDecision

SpecPortfolio == InitPortfolio /\ [][NextPortfolio]_vars

\* C36: after any sequence of executed decisions the number of open
\* positions is at most the maximum the active strategy states, 3 under
\* the low profile and 5 under the high profile.
C36_MaxConcurrentPositions == Len(positions) <= strategyMaxPositions(riskProfile)


\* C37: after any sequence of executed decisions, a closeAllPositions call
\* that has run to its end leaves the positions map empty and
\* allocatedCapital at 0.
C37_LedgerEmptyAfterLiquidation == closeResult.done => positions = <<>> /\ allocatedCapital = 0


\* C38: an executed open or close decision for currency identifier A leaves
\* the position held for every other identifier B in the map as it was,
\* also when A and B are identifiers of different networks with the same
\* address part.
C38_DistinctAssetsIndependent ==
    [][(analysis'.status = "returned" /\ analysis'.decisions[1].decision \in {"open", "close"})
       => \A k \in 1..Len(positions) :
            positions[k].currencyId # analysis'.decisions[1].currencyId
            => \E j \in 1..Len(positions') : positions'[j] = positions[k]]_vars

(***************************************************************************)
(* The cycle of startAITrading from the end of its fetch loop, on batches  *)
(* whose latest samples rise, fall or are mixed.                           *)
(***************************************************************************)
DegradedMetrics == {<<>>, <<SampleBull>>, <<SampleBear>>, <<SampleMixed>>}

InitDegraded ==
    /\ riskProfile \in RiskProfiles
    /\ geminiApiKey \in BOOLEAN
    /\ positions = <<>>
    /\ allocatedCapital = 0
    /\ mainPc = "analyze"
    /\ \E ids \in SeqUpTo(CurrencyIds, MaxCurrencies) :
         /\ Len(ids) > 0
         /\ currencies = [j \in 1..Len(ids) |-> Currency(ids[j])]
         /\ \E tms \in [1..Len(ids) -> DegradedMetrics] :
              currenciesWithMetrics = [j \in 1..Len(ids) |-> MetricRecord(ids[j], "number", tms[j])]
    /\ gemini = NoGemini
    /\ analysis = NoAnalysis
    /\ i = 1
    /\ clock = 0
    /\ message = "none"
    /\ handlers = <<>>
    /\ process = "running"
    /\ closeResult = NoCloseResult

NextDegraded ==
    \/ AnalyzeSettles
    \/ ExecuteStep

SpecDegraded == InitDegraded /\ [][NextDegraded]_vars

\* the whole batch of the cycle was resolved by the fallback heuristic: no
\* API key, the prompt could not be built, the request failed, or the
\* response could not be parsed
wholeBatchFallback ==
    /\ analysis.status = "returned"
    /\ mainPc \in {"execute", "resting"}
    /\ \/ ~geminiApiKey
       \/ buildMultiCurrencyPromptThrows(currenciesWithMetrics)
       \/ gemini.kind \in {"fetchThrows", "httpError", "jsonThrows", "errorBody", "invalidStructure"}
       \/ parseTryThrows(gemini, currenciesWithMetrics)

\* C39: fallbackDecision returns open or hold and never close, so in a
\* cycle whose whole batch was resolved by the fallback heuristic no
\* executed decision removes a held position and the number of open
\* positions does not decrease while the decisions are executed.
C39_FallbackNeverCloses ==
    [][/\ wholeBatchFallback' => \A j \in 1..Len(analysis'.decisions) : analysis'.decisions[j].decision \in {"open", "hold"}
       /\ (wholeBatchFallback /\ mainPc = "execute" /\ i' = i + 1)
            => (/\ Len(positions') >= Len(positions)
                /\ \A k \in 1..Len(positions) : mapHas(positions', positions[k].tokenAddress)
                /\ message' # "Closing")]_vars

\* a cycle resolved by the fallback heuristic has executed its two
\* decisions and both positions they opened, the second a short one, are
\* held
C39_DegradedCycleOpenedTwo ==
    /\ wholeBatchFallback
    /\ mainPc = "resting"
    /\ Len(analysis.decisions) = 2
    /\ Len(positions) = 2
    /\ positions[2].type = "short"
    /\ handlers = <<>>

=============================================================================
